---- MODULE Spec2Model ----
(***************************************************************************)
(* A model of the radix-256 Merkle-Patricia node machinery of              *)
(* src/trie/patricia.go: the branch and leaf/extension nodes, their hash   *)
(* pre-images, descend, ascend, insert (with split), increase, collapse    *)
(* and deserialize, and of the trie facade that the specification          *)
(* describes on top of them; and a model of the service list of the DID    *)
(* document of src/unnamed/part_000 (AddService, RemoveService).           *)
(*                                                                         *)
(* Representation.                                                         *)
(*   - A key or path fragment ([]byte used as a path) is a sequence of     *)
(*     integers 0..255.                                                    *)
(*   - A value or child reference ([]byte used as content: leaf.Value,     *)
(*     branch.Path[i], branch.Value) is a sequence of content bytes.  A    *)
(*     content byte is Lit(n) = <<n>> for the plain byte n, or a byte of a *)
(*     BLAKE2b digest.  A digest is HashSize content bytes, the first of   *)
(*     which carries the pre-image: two digests are equal exactly when     *)
(*     their pre-images are equal (no collisions).                         *)
(*   - A Go panic (index out of range) is the outcome "panic".             *)
(***************************************************************************)
EXTENDS Integers, Sequences, FiniteSets, TLC

VARIABLES pc, node, node2, key, val, idx, flag, stack0, stack, ret, blob,
          trieA, trieB, doc, doc0, tag

vars == <<pc, node, node2, key, val, idx, flag, stack0, stack, ret, blob,
          trieA, trieB, doc, doc0, tag>>

(***************************************************************************)
(* Program constants.                                                      *)
(***************************************************************************)
RADIX == 256

HashSize == 32

ErrNil == "nil"

ErrInvalidPatricia == "invalid patricia operation"

ErrPathDiverge == "path diverges"

ErrGob == "gob decode error"

Panic == "panic"

(***************************************************************************)
(* Bytes, slices and digests.                                              *)
(***************************************************************************)
Lit(n) == <<n>>

\* a path fragment written into a hash pre-image
LitSeq(p) == [i \in 1..Len(p) |-> Lit(p[i])]

\* Go's s[from:] with from counted from 0
SliceFrom(s, from) == SubSeq(s, from + 1, Len(s))

\* Go's s[:to]
SliceTo(s, to) == SubSeq(s, 1, to)

\* the nil slice where the code tests v == nil; it has length 0 as bytes
NilBytes == << <<-1>> >>

\* blake2b.Sum256: HashSize bytes that identify the pre-image
Sum256(stream) ==
    [i \in 1..HashSize |-> IF i = 1 THEN <<stream, 1>> ELSE << <<>>, i>>]

\* make([]byte, common.HashSize) followed by copy(dst, src)
CopyHash(src) ==
    [i \in 1..HashSize |-> IF i <= Len(src) THEN src[i] ELSE Lit(0)]

(***************************************************************************)
(* Nodes.                                                                  *)
(***************************************************************************)
EmptySlots == [i \in 0..(RADIX - 1) |-> <<>>]

\* branch{}
branch == [kind |-> "branch", Path |-> EmptySlots, Value |-> <<>>]

\* leaf{Ext, Path, Value}
leaf(ext, path, value) ==
    [kind |-> "leaf", Ext |-> ext, Path |-> path, Value |-> value]

\* path[lo] ++ ... ++ path[hi], in index order (halving keeps the evaluation
\* shallow)
RECURSIVE ConcatSlots(_, _, _)
ConcatSlots(path, lo, hi) ==
    IF lo > hi THEN <<>>
    ELSE IF lo = hi THEN path[lo]
    ELSE LET mid == (lo + hi) \div 2
         IN  ConcatSlots(path, lo, mid) \o ConcatSlots(path, mid + 1, hi)

\* the byte string branch.hash feeds to blake2b
branch_stream(b) == ConcatSlots(b.Path, 0, RADIX - 1) \o b.Value

branch_hash(b) == Sum256(branch_stream(b))

\* the byte string leaf.hash feeds to blake2b
leaf_stream(l) == <<Lit(l.Ext)>> \o LitSeq(l.Path) \o l.Value

leaf_hash(l) == Sum256(leaf_stream(l))

\* patricia.hash(), dispatched on the dynamic type
hash(n) == IF n.kind = "branch" THEN branch_hash(n) ELSE leaf_hash(n)

stream(n) == IF n.kind = "branch" THEN branch_stream(n) ELSE leaf_stream(n)

NonEmptySlots(b) == {i \in 0..(RADIX - 1) : Len(b.Path[i]) > 0}

(***************************************************************************)
(* descend                                                                 *)
(***************************************************************************)
DescRet(ref, match, err) == [ref |-> ref, match |-> match, err |-> err]

branch_descend(b, k) ==
    IF Len(k) = 0 THEN DescRet(<<>>, 0, Panic)
    ELSE IF Len(b.Path[k[1]]) > 0 THEN DescRet(b.Path[k[1]], 1, ErrNil)
    ELSE DescRet(<<>>, 0, ErrInvalidPatricia)

RECURSIVE leaf_descend_loop(_, _, _)
leaf_descend_loop(l, k, match) ==
    IF match >= Len(l.Path) \/ match >= Len(k) THEN DescRet(<<>>, match, Panic)
    ELSE IF l.Path[match + 1] = k[match + 1]
         THEN IF match + 1 = Len(l.Path)
              THEN DescRet(l.Value, match + 1, ErrNil)
              ELSE leaf_descend_loop(l, k, match + 1)
         ELSE DescRet(<<>>, match, ErrPathDiverge)

leaf_descend(l, k) == leaf_descend_loop(l, k, 0)

descend(n, k) ==
    IF n.kind = "branch" THEN branch_descend(n, k) ELSE leaf_descend(n, k)

(***************************************************************************)
(* container/list, as far as insert uses it: the front is index 1.         *)
(***************************************************************************)
PushBack(st, n) == Append(st, n)

\* mutation of PushFront: the node is put at the back
PushFront_back(st, n) == Append(st, n)

PushFront(st, n) == <<n>> \o st

Front(st) == st[1]

(***************************************************************************)
(* ascend                                                                  *)
(***************************************************************************)
AscRet(n, err) == [node |-> n, err |-> err]

\* mutation of branch_ascend: the hash is written into slot 0
branch_ascend_first(b, k, index) ==
    AscRet([b EXCEPT !.Path[0] = CopyHash(k)], ErrNil)

branch_ascend(b, k, index) ==
    AscRet([b EXCEPT !.Path[index] = CopyHash(k)], ErrNil)

leaf_ascend(l, k, index) ==
    IF l.Ext = 0 THEN AscRet(l, ErrInvalidPatricia)
    ELSE AscRet([l EXCEPT !.Value = CopyHash(k)], ErrNil)

ascend(n, k, index) ==
    IF n.kind = "branch" THEN branch_ascend(n, k, index)
    ELSE leaf_ascend(n, k, index)

(***************************************************************************)
(* insert and split                                                        *)
(***************************************************************************)
InsRet(st, err) == [stack |-> st, err |-> err]

\* for l.Path[match] == k[match] { match++ }: the match length, or -1 when
\* an index runs out of range
RECURSIVE leaf_match_loop(_, _, _)
leaf_match_loop(l, k, match) ==
    IF match >= Len(l.Path) \/ match >= Len(k) THEN -1
    ELSE IF l.Path[match + 1] = k[match + 1]
         THEN leaf_match_loop(l, k, match + 1)
         ELSE match

leaf_match(l, k) == leaf_match_loop(l, k, 0)

\* mutation of branch_insert: the slot is not looked at
branch_insert_any(b, k, v, st) ==
    InsRet(PushBack(st, leaf(0, SliceFrom(k, 1), v)), ErrNil)

branch_insert(b, k, v, st) ==
    IF Len(k) = 0 THEN InsRet(st, Panic)
    ELSE IF Len(b.Path[k[1]]) > 0 THEN InsRet(st, ErrInvalidPatricia)
    ELSE InsRet(PushBack(st, leaf(0, SliceFrom(k, 1), v)), ErrNil)

\* mutation of split_link: the extension's side is written into the new
\* leaf's slot
split_link_overwrite(k, hashl, divPath, child) ==
    [branch EXCEPT !.Path[k[1]] = child]

\* the linking branch of split: slot k[0] holds the new leaf, slot divPath[0]
\* the extension's side
split_link(k, hashl, divPath, child) ==
    [branch EXCEPT !.Path[k[1]] = hashl, !.Path[divPath[1]] = child]

leaf_split(l, match, k, v, st) ==
    LET divPath == SliceFrom(l.Path, match)
        l1      == leaf(0, SliceFrom(k, 1), v)
        hashl   == leaf_hash(l1)
    IN  IF Len(divPath) = 0 THEN InsRet(st, Panic)
        ELSE IF Len(divPath) = 1
        THEN LET b == split_link(k, hashl, divPath, l.Value)
             IN  InsRet(PushBack(PushBack(st, b), l1), ErrNil)
        ELSE IF Len(divPath) = 2
        THEN LET b1 == [branch EXCEPT !.Path[divPath[2]] = l.Value]
                 b  == split_link(k, hashl, divPath, branch_hash(b1))
             IN  InsRet(PushBack(PushBack(PushBack(st, b), b1), l1), ErrNil)
        ELSE LET e == leaf(1, SliceFrom(divPath, 1), l.Value)
                 b == split_link(k, hashl, divPath, leaf_hash(e))
             IN  InsRet(PushBack(PushBack(PushBack(st, b), e), l1), ErrNil)

\* mutation of front_hash: the hash of the last node of the stack
back_hash(st) == hash(st[Len(st)])

\* n := stack.Front(); ptr.hash()
front_hash(st) == hash(Front(st))

\* the new top node above a split extension
insert_top(l, match, st) ==
    IF match = 1
    THEN PushFront(st, [branch EXCEPT !.Path[l.Path[1]] = front_hash(st)])
    ELSE IF match > 1
    THEN PushFront(st, leaf(1, SliceTo(l.Path, match), front_hash(st)))
    ELSE st

\* the leaf case of insert
insert_leaf(l, k, v, match, st) ==
    LET l1 == leaf(0, SliceFrom(l.Path, match + 1), l.Value)
        l2 == leaf(0, SliceFrom(k, match + 1), v)
        b  == [branch EXCEPT !.Path[l.Path[match + 1]] = leaf_hash(l1),
                             !.Path[k[match + 1]] = leaf_hash(l2)]
        s3 == PushBack(PushBack(PushBack(st, b), l1), l2)
    IN  IF match > 0
        THEN PushFront(s3, leaf(1, SliceTo(k, match), branch_hash(b)))
        ELSE s3

leaf_insert(l, k, v, st) ==
    LET match == leaf_match(l, k)
    IN  IF match = -1 THEN InsRet(st, Panic)
        ELSE IF match = Len(l.Path) THEN InsRet(st, ErrInvalidPatricia)
        ELSE IF l.Ext = 1
        THEN IF Len(l.Path) = 1 THEN InsRet(st, ErrInvalidPatricia)
             ELSE LET s == leaf_split(l, match, SliceFrom(k, match), v, st)
                  IN  IF s.err # ErrNil THEN s
                      ELSE InsRet(insert_top(l, match, s.stack), ErrNil)
        ELSE InsRet(insert_leaf(l, k, v, match, st), ErrNil)

insert(n, k, v, st) ==
    IF n.kind = "branch" THEN branch_insert(n, k, v, st)
    ELSE leaf_insert(n, k, v, st)

\* the receiver after insert: neither branch.insert nor leaf.insert assigns
\* to a field of its receiver
insert_receiver(n, k, v) == n

(***************************************************************************)
(* increase: the announced numbers of branches, extensions and leaves.     *)
(***************************************************************************)
IncRet(b, e, l, err) == [B |-> b, E |-> e, L |-> l, err |-> err]

branch_increase(b, k) == IncRet(0, 0, 1, ErrNil)

leaf_increase(l, k) ==
    LET match == leaf_match(l, k)
    IN  IF match = -1 THEN IncRet(0, 0, 0, Panic)
        ELSE IF match > 0 THEN IncRet(1, 1, 2, ErrNil)
        ELSE IncRet(1, 0, 2, ErrNil)

increase(n, k) ==
    IF n.kind = "branch" THEN branch_increase(n, k) ELSE leaf_increase(n, k)

(***************************************************************************)
(* collapse                                                                *)
(***************************************************************************)
ClpsRet(n, k, v, clps) == [node |-> n, k |-> k, v |-> v, clps |-> clps]

\* mutation of branch_trim: the slot is left as it is
branch_trim_skip(b, index) == b

\* mutation of branch_trim: every slot is emptied
branch_trim_all(b, index) == [b EXCEPT !.Path = EmptySlots]

\* b.Path[index] = nil
branch_trim(b, index) == [b EXCEPT !.Path[index] = <<>>]

\* the loop of branch.collapse: the number of non-empty slots and the
\* position of the last one (-1 when there is none)
CountRet(nb, last) == [nb |-> nb, last |-> last]

branch_count(b) ==
    LET ne == NonEmptySlots(b)
    IN  CountRet(Cardinality(ne),
                 IF ne = {} THEN -1 ELSE CHOOSE i \in ne : \A j \in ne : j <= i)

branch_collapse(b, k, v, index, childClps) ==
    IF ~childClps THEN ClpsRet(b, k, v, FALSE)
    ELSE LET b1 == IF v = NilBytes THEN branch_trim(b, index) ELSE b
             k1 == IF v = NilBytes THEN <<>> ELSE k
             c  == branch_count(b1)
         IN  IF c.nb = 1
             THEN ClpsRet(b1, <<c.last>> \o k1, b1.Path[c.last], TRUE)
             ELSE ClpsRet(b1, k1, v, FALSE)

\* mutation of leaf_collapse: the key fragment goes before the path
leaf_collapse_swapped(l, k, v, index, childCollapse) ==
    IF ~childCollapse THEN ClpsRet(l, k, v, FALSE)
    ELSE ClpsRet(l, k \o l.Path, v, TRUE)

\* append(l.Path, k...) yields the bytes of l.Path followed by those of k;
\* the bytes of l.Path within its length stay as they are
leaf_collapse(l, k, v, index, childCollapse) ==
    IF ~childCollapse THEN ClpsRet(l, k, v, FALSE)
    ELSE ClpsRet(l, l.Path \o k, v, TRUE)

collapse(n, k, v, index, childClps) ==
    IF n.kind = "branch" THEN branch_collapse(n, k, v, index, childClps)
    ELSE leaf_collapse(n, k, v, index, childClps)

(***************************************************************************)
(* serialize and deserialize.  encoding/gob is modelled by what the code   *)
(* relies on: Encode yields a stream that Decode turns back into a value   *)
(* of the same struct type; Decode reads the first encoded value of the    *)
(* stream, does not look at what follows it, and fails when the stream     *)
(* does not start with an encoding of that struct type.                    *)
(***************************************************************************)
GobEncode(n) == << <<"gob", n, 0>> >>

IsGobOf(s, kind) ==
    /\ Len(s) >= 1
    /\ Len(s[1]) = 3
    /\ s[1][2].kind = kind

SerRet(n, err) == [node |-> n, err |-> err]

branch_serialize(b) == <<Lit(2)>> \o GobEncode(b)

leaf_serialize(l) == <<Lit(l.Ext)>> \o GobEncode(l)

serialize(n) ==
    IF n.kind = "branch" THEN branch_serialize(n) ELSE leaf_serialize(n)

branch_deserialize(b, s) ==
    IF Len(s) = 0 THEN SerRet(branch, Panic)
    ELSE IF IsGobOf(SliceFrom(s, 1), "branch")
         THEN SerRet(s[2][2], ErrNil)
         ELSE SerRet(branch, ErrGob)

leaf_deserialize(l, s) ==
    IF Len(s) = 0 THEN SerRet(leaf(0, <<>>, <<>>), Panic)
    ELSE IF IsGobOf(SliceFrom(s, 1), "leaf")
         THEN SerRet(s[2][2], ErrNil)
         ELSE SerRet(leaf(0, <<>>, <<>>), ErrGob)

deserialize(n, s) ==
    IF n.kind = "branch" THEN branch_deserialize(n, s)
    ELSE leaf_deserialize(n, s)

(***************************************************************************)
(* Inputs.  Keys and paths are drawn from KeyBytes, up to MaxPathLen bytes *)
(* long (key tails one byte longer).                                       *)
(***************************************************************************)
MaxPathLen == 3

KeyBytes == {0, 255}

SeqsOfLen(S, lo, hi) == UNION {[1..m -> S] : m \in lo..hi}

UserValues == {<<Lit(7)>>, <<Lit(8), Lit(9)>>}

\* child references an extension or a branch slot may hold
ChildRefs ==
    {leaf_hash(leaf(0, <<>>, <<Lit(5)>>)), leaf_hash(leaf(0, <<0>>, <<Lit(5)>>))}

\* stored leaves hold the first user value, stored extensions the first
\* child reference; the inserted value ranges over UserValues
LeafInputs ==
    {leaf(0, p, <<Lit(7)>>) : p \in SeqsOfLen(KeyBytes, 0, MaxPathLen)}

ExtInputs ==
    {leaf(1, p, leaf_hash(leaf(0, <<>>, <<Lit(5)>>))) :
        p \in SeqsOfLen(KeyBytes, 1, MaxPathLen)}

\* the slots of a branch that the inputs populate
BranchSlots == {0, 1, 255}

BranchInputs ==
    {[branch EXCEPT !.Path = [i \in 0..(RADIX - 1) |->
                                 IF i \in BranchSlots THEN f[i] ELSE <<>>]] :
        f \in [BranchSlots -> {<<>>} \cup ChildRefs]}

KeyTails == SeqsOfLen(KeyBytes, 1, MaxPathLen + 1)

\* a descent path that is already on the stack when insert is called
PreStacks == {<<>>, <<leaf(1, <<0, 0>>, leaf_hash(leaf(0, <<>>, <<Lit(5)>>)))>>}

(***************************************************************************)
(* SpecInsert: one call of insert(key, val, stack) and one call of         *)
(* increase(key) on a drawn node.  node2 keeps the node as it was drawn,   *)
(* idx the result of increase.                                             *)
(***************************************************************************)
\* increase has not been called
NotCounted == IncRet(-1, -1, -1, ErrNil)

InitInsert ==
    /\ pc = "call"
    /\ node \in LeafInputs \cup ExtInputs \cup BranchInputs
    /\ key \in KeyTails
    /\ Len(key) \in IF node.kind = "leaf"
                     THEN Len(node.Path)..(Len(node.Path) + 1)
                     ELSE 1..2
    /\ val \in UserValues
    /\ stack0 \in PreStacks
    /\ stack = stack0
    /\ ret = ErrNil
    /\ node2 = node
    /\ idx = NotCounted
    /\ flag = FALSE /\ blob = <<>>
    /\ trieA = 0 /\ trieB = 0
    /\ doc = 0 /\ doc0 = 0 /\ tag = ""

Insert ==
    /\ pc = "call"
    /\ LET r == insert(node, key, val, stack)
       IN  /\ stack' = r.stack
           /\ ret' = r.err
    /\ node' = insert_receiver(node, key, val)
    /\ pc' = "done"
    /\ UNCHANGED <<node2, key, val, idx, flag, stack0, blob, trieA, trieB,
                   doc, doc0, tag>>

Increase ==
    /\ idx = NotCounted
    /\ idx' = increase(node, key)
    /\ UNCHANGED <<pc, node, node2, key, val, flag, stack0, stack, ret, blob,
                   trieA, trieB,
                   doc, doc0, tag>>

NextInsert == Insert \/ Increase

SpecInsert == InitInsert /\ [][NextInsert]_vars

(***************************************************************************)
(* Lookup over a set of stored nodes: repeat descend, loading each next    *)
(* node by its hash, until a leaf is reached (Arrived), the path diverges  *)
(* (Diverge), descend fails, or the reference is not among the nodes       *)
(* (Continue with that reference).                                         *)
(***************************************************************************)
LookRet(status, ref, rest) == [status |-> status, ref |-> ref, rest |-> rest]

RECURSIVE Lookup(_, _, _)
Lookup(st, n, k) ==
    LET r    == descend(n, k)
        rest == SliceFrom(k, r.match)
    IN  IF r.err = ErrPathDiverge THEN LookRet("Diverge", <<>>, rest)
        ELSE IF r.err # ErrNil THEN LookRet(r.err, <<>>, rest)
        ELSE IF n.kind = "leaf" /\ n.Ext = 0 THEN LookRet("Arrived", r.ref, rest)
        ELSE LET c == {i \in 1..Len(st) : hash(st[i]) = r.ref}
             IN  IF c = {} THEN LookRet("Continue", r.ref, rest)
                 ELSE Lookup(st, st[CHOOSE i \in c : TRUE], rest)

(***************************************************************************)
(* Claims about one insert.                                                *)
(***************************************************************************)
\* insert returned nil on a leaf or an extension
InsertedOK == pc = "done" /\ ret = ErrNil /\ node.kind = "leaf"

\* the nodes the call added, front to back: a new top node goes before the
\* nodes that were on the stack, all others after them
Pushed ==
    IF stack0 = <<>> THEN stack
    ELSE IF stack[1] = stack0[1] THEN SliceFrom(stack, Len(stack0))
    ELSE <<stack[1]>> \o SliceFrom(stack, Len(stack0) + 1)

MatchLen == leaf_match(node, key)

\* the position of the linking branch B among the pushed nodes
BPos == IF MatchLen > 0 THEN 2 ELSE 1

IsExt(n) == n.kind = "leaf" /\ n.Ext = 1

IsLeaf(n) == n.kind = "leaf" /\ n.Ext = 0

\* C2 (as claimed): after a successful insert into an empty stack, lookup
\* from the front node resolves the key tail to a leaf holding val, and the
\* old node's path to the old value (leaf) or the old child hash (extension).
C2_GetAfterInsert ==
    (InsertedOK /\ stack0 = <<>>) =>
        /\ Lookup(stack, Front(stack), key) = LookRet("Arrived", val, <<>>)
        /\ Lookup(stack, Front(stack), node.Path) =
              LookRet(IF node.Ext = 1 THEN "Continue" ELSE "Arrived",
                      node.Value, <<>>)

\* C3 (as claimed): every extension that insert pushes has a path of length
\* at least 2.
C3_ExtensionLength ==
    InsertedOK =>
        \A i \in 1..Len(Pushed) : IsExt(Pushed[i]) => Len(Pushed[i].Path) >= 2

\* C4 (as claimed): every branch that insert pushes has at least two
\* non-empty child slots.
C4_EveryBranchTwoSlots ==
    InsertedOK =>
        \A i \in 1..Len(Pushed) :
            Pushed[i].kind = "branch" =>
                Cardinality(NonEmptySlots(Pushed[i])) >= 2

\* C4 (amended): the linking branch B that insert pushes has two non-empty
\* child slots; the helper branch of an extension split and the top branch
\* created when the match length is 1 have exactly one.
C4_LinkingBranchTwoSlots ==
    InsertedOK =>
        /\ Pushed[BPos].kind = "branch"
        /\ Cardinality(NonEmptySlots(Pushed[BPos])) = 2
        /\ \A i \in 1..Len(Pushed) :
               (i # BPos /\ Pushed[i].kind = "branch") =>
                   Cardinality(NonEmptySlots(Pushed[i])) = 1

\* an extension split that pushed a top branch, B, a helper branch and a leaf
C4_Witness ==
    /\ InsertedOK
    /\ node.Ext = 1
    /\ Len(Pushed) = 4
    /\ Pushed[1].kind = "branch"
    /\ Pushed[2].kind = "branch"
    /\ Pushed[3].kind = "branch"

\* the child references held by a node that insert created
ChildRefsOf(n) ==
    IF n.kind = "branch" THEN {n.Path[i] : i \in NonEmptySlots(n)}
    ELSE IF n.Ext = 1 THEN {n.Value}
    ELSE {}

\* C5: after a successful insert into an empty stack, every child reference
\* in a created node is the hash of another pushed node or the child hash of
\* the old extension; the top node refers to the linking branch B; and B has
\* two populated slots, at the two diverging bytes.
C5_HashConsistency ==
    (InsertedOK /\ stack0 = <<>>) =>
        /\ \A i \in 1..Len(stack) : \A r \in ChildRefsOf(stack[i]) :
               \/ \E j \in 1..Len(stack) : j # i /\ r = hash(stack[j])
               \/ node.Ext = 1 /\ r = node.Value
        /\ MatchLen > 0 =>
               /\ ChildRefsOf(stack[1]) = {hash(stack[2])}
               /\ stack[2].kind = "branch"
        /\ NonEmptySlots(stack[BPos]) = {node.Path[MatchLen + 1], key[MatchLen + 1]}
        /\ node.Path[MatchLen + 1] # key[MatchLen + 1]

\* an extension split below a new top extension: E_top, B, L
C5_Witness ==
    /\ InsertedOK
    /\ stack0 = <<>>
    /\ node.Ext = 1
    /\ MatchLen > 1
    /\ Len(stack) = 3
    /\ IsExt(stack[1])
    /\ stack[2].kind = "branch"
    /\ IsLeaf(stack[3])

\* the kind of a node: branch, extension or leaf
Shape(n) == IF n.kind = "branch" THEN "B" ELSE IF n.Ext = 1 THEN "E" ELSE "L"

Shapes(st) == [i \in 1..Len(st) |-> Shape(st[i])]

\* the number of path bytes of the old node from the diverging byte on
DivLen == Len(node.Path) - MatchLen

\* C11: called with an empty stack, a successful insert on a leaf leaves the
\* stack, front to back, as [E if m > 0], B, L1, L2, and on an extension as
\* [B_top if m = 1 | E_top if m > 1], B, [B1 if len(divPath) = 2 | E' if
\* len(divPath) > 2], L; L1 keeps the old value, the last node is the leaf
\* for the new value, and every parent precedes its children.
C11_PushOrder ==
    (InsertedOK /\ stack0 = <<>>) =>
        /\ Shapes(stack) =
              IF node.Ext = 0
              THEN (IF MatchLen > 0 THEN <<"E">> ELSE <<>>) \o <<"B", "L", "L">>
              ELSE (IF MatchLen = 1 THEN <<"B">>
                    ELSE IF MatchLen > 1 THEN <<"E">> ELSE <<>>)
                   \o <<"B">>
                   \o (IF DivLen = 2 THEN <<"B">>
                       ELSE IF DivLen > 2 THEN <<"E">> ELSE <<>>)
                   \o <<"L">>
        /\ stack[Len(stack)] = leaf(0, SliceFrom(key, MatchLen + 1), val)
        /\ node.Ext = 0 =>
               stack[Len(stack) - 1] =
                   leaf(0, SliceFrom(node.Path, MatchLen + 1), node.Value)
        /\ \A i \in 1..Len(stack) : \A j \in 1..Len(stack) :
               hash(stack[j]) \in ChildRefsOf(stack[i]) => i < j

\* an extension split at its first byte with three bytes left: B, E', L
C11_Witness ==
    /\ InsertedOK
    /\ stack0 = <<>>
    /\ node.Ext = 1
    /\ MatchLen = 0
    /\ DivLen > 2
    /\ Shapes(stack) = <<"B", "E", "L">>

\* C12 (as claimed): after a successful insert the nodes that were on the
\* stack before the call are the front of the stack in their original
\* order, every node the call added comes after them, and the child hash
\* stored in a new top node is the hash of the new linking branch B.
C12_OnlyAppends ==
    InsertedOK =>
        /\ Len(stack) >= Len(stack0)
        /\ SubSeq(stack, 1, Len(stack0)) = stack0
        /\ MatchLen > 0 => ChildRefsOf(Pushed[1]) = {hash(Pushed[BPos])}

\* the whole path of the leaf or extension matches the key tail
PathIsPrefix ==
    /\ node.kind = "leaf"
    /\ Len(node.Path) <= Len(key)
    /\ SubSeq(key, 1, Len(node.Path)) = node.Path

\* C13 (as claimed): insert on a leaf or extension whose whole path is a
\* prefix of the key tail returns ErrInvalidPatricia and pushes nothing; it
\* does not fail in any other way.
C13_PrefixRejected ==
    (pc = "done" /\ PathIsPrefix) =>
        /\ ret = ErrInvalidPatricia
        /\ stack = stack0

\* C14: insert on a branch whose slot key[0] is occupied returns
\* ErrInvalidPatricia and leaves the stack and the branch unchanged; with
\* the slot empty it returns nil, pushes exactly one leaf with path key[1:]
\* and value val at the back of the stack, and leaves the branch unchanged.
C14_BranchInsert ==
    (pc = "done" /\ node2.kind = "branch") =>
        /\ node = node2
        /\ IF Len(node2.Path[key[1]]) > 0
           THEN ret = ErrInvalidPatricia /\ stack = stack0
           ELSE /\ ret = ErrNil
                /\ stack = stack0 \o <<leaf(0, SubSeq(key, 2, Len(key)), val)>>

\* a leaf with a one-byte path pushed behind a node that was on the stack
C14_Witness ==
    /\ pc = "done"
    /\ node2.kind = "branch"
    /\ NonEmptySlots(node2) # {}
    /\ Len(node2.Path[key[1]]) = 0
    /\ stack0 # <<>>
    /\ Len(stack) = Len(stack0) + 1
    /\ IsLeaf(stack[Len(stack)])
    /\ Len(stack[Len(stack)].Path) = 1

\* the numbers of branches, extensions and leaves among the pushed nodes
PushedCount ==
    [B |-> Cardinality({i \in 1..Len(Pushed) : Shape(Pushed[i]) = "B"}),
     E |-> Cardinality({i \in 1..Len(Pushed) : Shape(Pushed[i]) = "E"}),
     L |-> Cardinality({i \in 1..Len(Pushed) : Shape(Pushed[i]) = "L"}),
     err |-> ErrNil]

\* C15 (as claimed): for every node and key on which insert succeeds, the
\* triple returned by increase(key) equals the numbers of branches,
\* extensions and leaves that insert pushes on the stack.
C15_IncreaseCounts ==
    (pc = "done" /\ ret = ErrNil /\ idx # NotCounted) => idx = PushedCount

(***************************************************************************)
(* SpecDescend: one call of descend(key) on a drawn node.                  *)
(***************************************************************************)
InitDescend ==
    /\ pc = "call"
    /\ node \in LeafInputs \cup ExtInputs \cup BranchInputs
    /\ key \in SeqsOfLen(KeyBytes, 0, MaxPathLen + 1)
    /\ IF node.kind = "leaf" THEN Len(key) >= Len(node.Path) ELSE Len(key) >= 1
    /\ ret = DescRet(<<>>, 0, ErrNil)
    /\ val = <<>> /\ stack0 = <<>> /\ stack = <<>>
    /\ node2 = 0 /\ idx = 0 /\ flag = FALSE /\ blob = <<>>
    /\ trieA = 0 /\ trieB = 0
    /\ doc = 0 /\ doc0 = 0 /\ tag = ""

Descend ==
    /\ pc = "call"
    /\ ret' = descend(node, key)
    /\ pc' = "done"
    /\ UNCHANGED <<node, node2, key, val, idx, flag, stack0, stack, blob,
                   trieA, trieB,
                   doc, doc0, tag>>

NextDescend == Descend

SpecDescend == InitDescend /\ [][NextDescend]_vars

Min(a, b) == IF a < b THEN a ELSE b

\* the length of the longest common prefix of two byte strings
LCP(p, k) ==
    Cardinality({n \in 1..Min(Len(p), Len(k)) : \A j \in 1..n : p[j] = k[j]})

\* C7 (as claimed): descend on a leaf or extension, for every path (the
\* empty one included) and every key at least as long: a whole-path match
\* returns (Value, len(Path), nil), anything else (nil, m, ErrPathDiverge).
C7_LeafDescend ==
    (pc = "done" /\ node.kind = "leaf") =>
        IF LCP(node.Path, key) = Len(node.Path)
        THEN ret = DescRet(node.Value, Len(node.Path), ErrNil)
        ELSE ret = DescRet(<<>>, LCP(node.Path, key), ErrPathDiverge)

\* C8 (as claimed): descend on a branch returns (slot key[0], 1, nil) for a
\* non-empty slot and the divergence signal ErrPathDiverge with consumed 0
\* for an empty one.
C8_BranchDescend ==
    (pc = "done" /\ node.kind = "branch") =>
        IF Len(node.Path[key[1]]) > 0
        THEN ret = DescRet(node.Path[key[1]], 1, ErrNil)
        ELSE ret = DescRet(<<>>, 0, ErrPathDiverge)

(***************************************************************************)
(* SpecHash: the hash pre-images of two drawn nodes of the same kind.      *)
(***************************************************************************)
HashLeafInputs ==
    {leaf(e, p, v) : e \in {0, 1}, p \in SeqsOfLen(KeyBytes, 0, 2),
                     v \in UserValues \cup {<<Lit(0), Lit(7)>>} \cup ChildRefs}

HashRet(s1, s2, h1, h2) == [s1 |-> s1, s2 |-> s2, h1 |-> h1, h2 |-> h2]

InitHash ==
    /\ pc = "call"
    /\ \/ node \in HashLeafInputs /\ node2 \in HashLeafInputs
       \/ node \in BranchInputs /\ node2 \in BranchInputs
    /\ ret = HashRet(<<>>, <<>>, <<>>, <<>>)
    /\ key = <<>> /\ val = <<>> /\ stack0 = <<>> /\ stack = <<>>
    /\ idx = 0 /\ flag = FALSE /\ blob = <<>>
    /\ trieA = 0 /\ trieB = 0
    /\ doc = 0 /\ doc0 = 0 /\ tag = ""

HashNodes ==
    /\ pc = "call"
    /\ ret' = HashRet(stream(node), stream(node2), hash(node), hash(node2))
    /\ pc' = "done"
    /\ UNCHANGED <<node, node2, key, val, idx, flag, stack0, stack, blob,
                   trieA, trieB,
                   doc, doc0, tag>>

NextHash == HashNodes

SpecHash == InitHash /\ [][NextHash]_vars

\* C6 (as claimed): two nodes of the same kind with different contents never
\* feed the same byte string to the hash function, so they never have the
\* same hash.
C6_PreimageCommits ==
    (pc = "done" /\ node # node2) => (ret.s1 # ret.s2 /\ ret.h1 # ret.h2)

(***************************************************************************)
(* SpecCollapse: one call of collapse(key, val, idx, flag) on a drawn      *)
(* node; node2 keeps the node as it was before the call.                   *)
(***************************************************************************)
InitCollapse ==
    /\ pc = "call"
    /\ node \in BranchInputs \cup LeafInputs \cup ExtInputs
    /\ node2 = node
    /\ key \in SeqsOfLen(KeyBytes, 0, MaxPathLen - 1)
    /\ val \in {NilBytes} \cup ChildRefs
    /\ idx \in BranchSlots
    /\ flag \in BOOLEAN
    /\ ret = ClpsRet(node, <<>>, <<>>, FALSE)
    /\ stack0 = <<>> /\ stack = <<>> /\ blob = <<>>
    /\ trieA = 0 /\ trieB = 0
    /\ doc = 0 /\ doc0 = 0 /\ tag = ""

Collapse ==
    /\ pc = "call"
    /\ LET r == collapse(node, key, val, idx, flag)
       IN  /\ node' = r.node
           /\ ret' = r
    /\ pc' = "done"
    /\ UNCHANGED <<node2, key, val, idx, flag, stack0, stack, blob,
                   trieA, trieB,
                   doc, doc0, tag>>

NextCollapse == Collapse

SpecCollapse == InitCollapse /\ [][NextCollapse]_vars

\* the branch as the claim expects it after the call: the slot at idx is
\* emptied exactly when val is nil
Trimmed == IF val = NilBytes THEN [node2 EXCEPT !.Path[idx] = <<>>] ELSE node2

\* C9 (as claimed): with childCollapsed = true, if exactly one non-empty slot
\* remains at position i with value w after the trim, collapse returns
\* (<<i>> ++ key, w, true) for the key fragment that was passed in.
C9_BranchCollapse ==
    (pc = "done" /\ flag /\ node2.kind = "branch") =>
        \A i \in BranchSlots :
            NonEmptySlots(Trimmed) = {i} =>
                /\ ret.k = <<i>> \o key
                /\ ret.v = Trimmed.Path[i]
                /\ ret.clps

\* C9 (amended): with childCollapsed = true, if exactly one non-empty slot
\* remains at position i with value w after the trim, collapse returns
\* (<<i>> ++ k', w, true) where k' is the key fragment that was passed in
\* when val is not nil and the empty fragment when val is nil.
C9_BranchCollapseNilKey ==
    (pc = "done" /\ flag /\ node2.kind = "branch") =>
        \A i \in BranchSlots :
            NonEmptySlots(Trimmed) = {i} =>
                /\ ret.k = <<i>> \o (IF val = NilBytes THEN <<>> ELSE key)
                /\ ret.v = Trimmed.Path[i]
                /\ ret.clps
                /\ node = Trimmed

\* a delete: val is nil, the trimmed slot was populated, one slot is left and
\* a non-empty key fragment was passed in
C9_Witness ==
    /\ pc = "done"
    /\ node2.kind = "branch"
    /\ flag
    /\ val = NilBytes
    /\ Len(key) > 0
    /\ Cardinality(NonEmptySlots(node2)) = 2
    /\ idx \in NonEmptySlots(node2)
    /\ Cardinality(NonEmptySlots(node)) = 1
    /\ ret.clps

\* C16: collapse on a leaf or extension returns (node.Path ++ key, val,
\* true) when childCollapsed is true and (key, val, false) when it is false;
\* the node's Ext, Path and Value are as before the call.
C16_LeafCollapse ==
    (pc = "done" /\ node2.kind = "leaf") =>
        /\ ret.k = IF flag THEN node2.Path \o key ELSE key
        /\ ret.v = val
        /\ ret.clps = flag
        /\ node.Ext = node2.Ext
        /\ node.Path = node2.Path
        /\ node.Value = node2.Value

\* an extension with a two-byte path put before a different fragment
C16_Witness ==
    /\ pc = "done"
    /\ IsExt(node2)
    /\ flag
    /\ Len(node2.Path) = 2
    /\ Len(key) = 2
    /\ node2.Path # key
    /\ ret.k = node2.Path \o key
    /\ ret.k # key \o node2.Path
    /\ ret.clps

\* C17 (as claimed): for a branch with at least one non-empty slot, whenever
\* collapse is called with childCollapsed = true and returns collapsed =
\* false, the branch has at least two non-empty slots left.
C17_CollapseKeepsTwoSlots ==
    (/\ pc = "done"
     /\ node2.kind = "branch"
     /\ NonEmptySlots(node2) # {}
     /\ flag
     /\ ~ret.clps) =>
        Cardinality(NonEmptySlots(node)) >= 2

\* C18: branch.collapse with childCollapsed = false returns (key, val,
\* false) and leaves the branch as it was; with childCollapsed = true the
\* slot at idx is emptied exactly when val is nil, and every other slot and
\* Value are as before the call.
C18_BranchCollapseFrame ==
    (pc = "done" /\ node2.kind = "branch") =>
        /\ ~flag =>
               /\ ret.k = key /\ ret.v = val /\ ~ret.clps
               /\ node = node2
        /\ flag =>
               /\ \A i \in 0..(RADIX - 1) :
                      i # idx => node.Path[i] = node2.Path[i]
               /\ node.Value = node2.Value
               /\ node.kind = "branch"
               /\ node.Path[idx] =
                      IF val = NilBytes THEN <<>> ELSE node2.Path[idx]

\* a delete that emptied a populated slot and left two other slots populated
C18_Witness ==
    /\ pc = "done"
    /\ node2.kind = "branch"
    /\ flag
    /\ val = NilBytes
    /\ Len(node2.Path[idx]) > 0
    /\ Len(node.Path[idx]) = 0
    /\ Cardinality(NonEmptySlots(node)) = 2

(***************************************************************************)
(* SpecAscend: one call of ascend(val, idx) on a drawn node; node2 keeps   *)
(* the node as it was before the call.                                     *)
(***************************************************************************)
\* the hashes passed to ascend: two digests and a slice shorter than one
AscendHashes == ChildRefs \cup {<<Lit(3)>>}

InitAscend ==
    /\ pc = "call"
    /\ node \in BranchInputs \cup LeafInputs \cup ExtInputs
    /\ node2 = node
    /\ val \in AscendHashes
    /\ idx \in BranchSlots
    /\ ret = ErrNil
    /\ key = <<>> /\ flag = FALSE
    /\ stack0 = <<>> /\ stack = <<>> /\ blob = <<>>
    /\ trieA = 0 /\ trieB = 0
    /\ doc = 0 /\ doc0 = 0 /\ tag = ""

Ascend ==
    /\ pc = "call"
    /\ LET r == ascend(node, val, idx)
       IN  /\ node' = r.node
           /\ ret' = r.err
    /\ pc' = "done"
    /\ UNCHANGED <<node2, key, val, idx, flag, stack0, stack, blob,
                   trieA, trieB,
                   doc, doc0, tag>>

NextAscend == Ascend

SpecAscend == InitAscend /\ [][NextAscend]_vars

\* C19: for a 32-byte hash h, branch.ascend(h, index) leaves slot index
\* holding h and every other slot and Value as before; ascend on an
\* extension sets Value to h and leaves Ext and Path as before; ascend on a
\* leaf returns ErrInvalidPatricia and leaves the leaf as before.
C19_AscendFrame ==
    (pc = "done" /\ Len(val) = HashSize) =>
        IF node2.kind = "branch"
        THEN /\ ret = ErrNil
             /\ node.kind = "branch"
             /\ node.Path[idx] = val
             /\ \A i \in 0..(RADIX - 1) :
                    i # idx => node.Path[i] = node2.Path[i]
             /\ node.Value = node2.Value
        ELSE IF node2.Ext = 1
        THEN /\ ret = ErrNil
             /\ node.Value = val
             /\ node.Ext = node2.Ext
             /\ node.Path = node2.Path
             /\ node.kind = "leaf"
        ELSE /\ ret = ErrInvalidPatricia
             /\ node = node2

\* a branch whose populated slot idx is given another hash while a second
\* populated slot stays
C19_Witness ==
    /\ pc = "done"
    /\ node2.kind = "branch"
    /\ Len(val) = HashSize
    /\ Len(node2.Path[idx]) > 0
    /\ node2.Path[idx] # val
    /\ node.Path[idx] = val
    /\ Cardinality(NonEmptySlots(node)) >= 2
    /\ idx # 0

(***************************************************************************)
(* SpecDeserialize: one call of deserialize(blob) on a branch or a leaf    *)
(* receiver.                                                               *)
(***************************************************************************)
\* first bytes of a blob: the three type tags and two that are none
BlobTags == {0, 1, 2, 3, 255}

BlobBodies ==
    {GobEncode(n) : n \in LeafInputs \cup ExtInputs}
        \cup {GobEncode(n) : n \in BranchInputs}
        \cup {GobEncode(n) \o <<Lit(9)>> : n \in LeafInputs}
        \cup {<<>>, <<Lit(9)>>}

BlobInputs == {<<>>} \cup {<<Lit(t)>> \o b : t \in BlobTags, b \in BlobBodies}

InitDeserialize ==
    /\ pc = "call"
    /\ node \in {branch, leaf(0, <<>>, <<>>)}
    /\ blob \in BlobInputs
    /\ ret = ErrNil
    /\ key = <<>> /\ val = <<>> /\ stack0 = <<>> /\ stack = <<>>
    /\ node2 = 0 /\ idx = 0 /\ flag = FALSE
    /\ trieA = 0 /\ trieB = 0
    /\ doc = 0 /\ doc0 = 0 /\ tag = ""

Deserialize ==
    /\ pc = "call"
    /\ LET r == deserialize(node, blob)
       IN  /\ node' = r.node
           /\ ret' = r.err
    /\ pc' = "done"
    /\ UNCHANGED <<node2, key, val, idx, flag, stack0, stack, blob,
                   trieA, trieB,
                   doc, doc0, tag>>

NextDeserialize == Deserialize

SpecDeserialize == InitDeserialize /\ [][NextDeserialize]_vars

KnownTags == {Lit(0), Lit(1), Lit(2)}

\* C10 (as claimed): deserialize returns an error for every blob whose first
\* byte is not one of the type tags 0, 1, 2.
C10_RejectsUnknownTag ==
    (pc = "done" /\ Len(blob) > 0 /\ blob[1] \notin KnownTags) => ret # ErrNil

(***************************************************************************)
(* The trie facade: a content-addressed node store, the root hash, and     *)
(* Upsert as descend from the root, insert at the first divergence, and    *)
(* ascend with re-hashing back to the root.                                *)
(***************************************************************************)
KeyLen == 3

MaxUpserts == 3

TrieKeys == [1..KeyLen -> KeyBytes]

\* the store: hash -> blob entries, in the order they were first written
Entry(n) == [h |-> hash(n), n |-> n]

\* put(hash, bytes): writing an existing hash is a no-op
Put(store, n) ==
    LET e == Entry(n)
    IN  IF \E i \in 1..Len(store) : store[i].h = e.h THEN store
        ELSE Append(store, e)

RECURSIVE PutAll(_, _)
PutAll(store, st) ==
    IF st = <<>> THEN store ELSE PutAll(Put(store, Head(st)), Tail(st))

HasNode(store, h) == \E i \in 1..Len(store) : store[i].h = h

\* get(hash): the node stored under the hash
Load(store, h) == store[CHOOSE i \in 1..Len(store) : store[i].h = h].n

WalkRet(n, rest, path, err) == [node |-> n, rest |-> rest, path |-> path, err |-> err]

\* the descent of a write: repeat descend from n, recording each node passed
\* and the key byte it was left through, until descend reports an error
\* (the divergence signal included) or a leaf is reached
RECURSIVE Walk(_, _, _, _)
Walk(store, n, rest, path) ==
    LET r == descend(n, rest)
    IN  IF r.err # ErrNil THEN WalkRet(n, rest, path, r.err)
        ELSE IF IsLeaf(n) THEN WalkRet(n, rest, path, "arrived")
        ELSE IF ~HasNode(store, r.ref) THEN WalkRet(n, rest, path, "corrupted")
        ELSE Walk(store, Load(store, r.ref), SliceFrom(rest, r.match),
                  Append(path, [node |-> n, index |-> rest[1]]))

AscendRet(store, h, err) == [store |-> store, h |-> h, err |-> err]

\* the way back: each node of the path, last first, records the hash of its
\* new child, is stored again, and hands its own new hash to its parent
RECURSIVE AscendPath(_, _, _)
AscendPath(store, path, h) ==
    IF path = <<>> THEN AscendRet(store, h, ErrNil)
    ELSE LET f == path[Len(path)]
             a == ascend(f.node, h, f.index)
         IN  IF a.err # ErrNil THEN AscendRet(store, h, a.err)
             ELSE AscendPath(Put(store, a.node), SubSeq(path, 1, Len(path) - 1),
                             hash(a.node))

\* a trie: the root hash (empty before the first write), the store, the
\* pairs written, and whether a write has failed
EmptyTrie == [root |-> <<>>, store |-> <<>>, done |-> {}, failed |-> FALSE]

Written(t, k, v) == [t EXCEPT !.done = @ \cup {<<k, v>>}]

Failed(t) == [t EXCEPT !.failed = TRUE]

\* the write at the node where the walk stopped with the divergence signal:
\* insert there, store the new nodes, link them into the path
UpsertAt(t, w, k, v) ==
    LET ins  == insert(w.node, w.rest, v, <<>>)
        top  == IF w.node.kind = "branch"
                THEN ascend(w.node, hash(Front(ins.stack)), w.rest[1])
                ELSE AscRet(Front(ins.stack), ErrNil)
        st1  == Put(PutAll(t.store, ins.stack), top.node)
        up   == AscendPath(st1, w.path, hash(top.node))
    IN  IF ins.err # ErrNil THEN Failed(t)
        ELSE IF top.err # ErrNil \/ up.err # ErrNil THEN Failed(t)
        ELSE [Written(t, k, v) EXCEPT !.root = up.h, !.store = up.store]

Upsert(t, k, v) ==
    IF t.root = <<>>
    THEN LET l == leaf(0, k, v)
         IN  [Written(t, k, v) EXCEPT !.root = leaf_hash(l),
                                      !.store = Put(t.store, l)]
    ELSE LET w == Walk(t.store, Load(t.store, t.root), k, <<>>)
         IN  IF w.err = ErrPathDiverge THEN UpsertAt(t, w, k, v)
             ELSE Failed(t)

(***************************************************************************)
(* SpecTrie: two tries, both empty at first.  The first is written         *)
(* MaxUpserts pairs in any order, then the second is written the same      *)
(* pairs in any order.                                                     *)
(***************************************************************************)
KeysOf(t) == {p[1] : p \in t.done}

\* the value written under a key: the key's last byte
ValueOf(k) == <<Lit(k[Len(k)])>>

InitTrie ==
    /\ pc = "trie"
    /\ trieA = EmptyTrie
    /\ trieB = EmptyTrie
    /\ node = 0 /\ node2 = 0 /\ key = <<>> /\ val = <<>> /\ idx = 0
    /\ flag = FALSE /\ stack0 = <<>> /\ stack = <<>> /\ ret = ErrNil
    /\ blob = <<>>
    /\ doc = 0 /\ doc0 = 0 /\ tag = ""

UpsertA ==
    /\ pc = "trie"
    /\ ~trieA.failed
    /\ Cardinality(trieA.done) < MaxUpserts
    /\ \E k \in TrieKeys \ KeysOf(trieA) :
           trieA' = Upsert(trieA, k, ValueOf(k))
    /\ UNCHANGED <<pc, node, node2, key, val, idx, flag, stack0, stack, ret,
                   blob, trieB,
                   doc, doc0, tag>>

UpsertB ==
    /\ pc = "trie"
    /\ ~trieB.failed
    /\ Cardinality(trieA.done) = MaxUpserts
    /\ \E p \in trieA.done \ trieB.done :
           /\ p[1] \notin KeysOf(trieB)
           /\ trieB' = Upsert(trieB, p[1], p[2])
    /\ UNCHANGED <<pc, node, node2, key, val, idx, flag, stack0, stack, ret,
                   blob, trieA,
                   doc, doc0, tag>>

NextTrie == UpsertA \/ UpsertB

SpecTrie == InitTrie /\ [][NextTrie]_vars

\* C1 (as claimed): two tries that were written the same set of pairs with
\* distinct keys, in whatever orders and with every write succeeding, have
\* the same root hash.
C1_OrderIndependence ==
    (trieA.done = trieB.done /\ ~trieA.failed /\ ~trieB.failed) =>
        trieA.root = trieB.root

(***************************************************************************)
(* The DID document (package did): its service list.  A Go slice is a      *)
(* record of its nil-ness and its elements; strings are strings.           *)
(***************************************************************************)
ErrServiceNotExists == "service not exists"

NilSlice == [nil |-> TRUE, elems |-> <<>>]

MakeSlice(elems) == [nil |-> FALSE, elems |-> elems]

serviceStruct(id, type, endpoint, keys, accept) ==
    [ID |-> id, Type |-> type, ServiceEndpoint |-> endpoint,
     RecipientKeys |-> keys, Accept |-> accept]

\* the zero value of serviceStruct, as make() fills a new slice
ZeroService ==
    serviceStruct("", "", "", NilSlice, NilSlice)

\* id := doc.ID + "#" + tag
ServiceID(d, t) == d.ID \o "#" \o t

\* mutation of AddService: the service is appended without looking for its id
AddService_append(d, t, serviceType, endpoint) ==
    [d EXCEPT !.Service = MakeSlice(@.elems \o
        <<serviceStruct(ServiceID(d, t), serviceType, endpoint,
                        d.Authentication, MakeSlice(<<"didcomm/v2">>))>>)]

AddService(d, t, serviceType, endpoint) ==
    LET id   == ServiceID(d, t)
        new  == serviceStruct(id, serviceType, endpoint, d.Authentication,
                              MakeSlice(<<"didcomm/v2">>))
        hits == {i \in 1..Len(d.Service.elems) : d.Service.elems[i].ID = id}
    IN  IF d.Service.nil THEN [d EXCEPT !.Service = MakeSlice(<<new>>)]
        ELSE IF hits # {}
        THEN LET i == CHOOSE h \in hits : \A g \in hits : h <= g
             IN  [d EXCEPT !.Service.elems[i].Type = serviceType,
                           !.Service.elems[i].ServiceEndpoint = endpoint]
        ELSE [d EXCEPT !.Service = MakeSlice(@.elems \o <<new>>)]

RemRet(d, err) == [doc |-> d, err |-> err]

\* the loop of RemoveService over doc.Service[i], i from 1: services is the
\* new slice, count the number of services copied so far
RECURSIVE RemoveLoop(_, _, _, _, _)
RemoveLoop(d, id, i, services, count) ==
    IF i > Len(d.Service.elems)
    THEN RemRet([d EXCEPT !.Service = MakeSlice(services)], ErrNil)
    ELSE IF d.Service.elems[i].ID # id
    THEN IF count = Len(services) THEN RemRet(d, ErrServiceNotExists)
         ELSE RemoveLoop(d, id, i + 1,
                         [services EXCEPT ![count + 1] = d.Service.elems[i]],
                         count + 1)
    ELSE RemoveLoop(d, id, i + 1, services, count)

RemoveService(d, t) ==
    IF d.Service.nil \/ Len(d.Service.elems) = 0
    THEN RemRet(d, ErrServiceNotExists)
    ELSE RemoveLoop(d, ServiceID(d, t), 1,
                    [j \in 1..(Len(d.Service.elems) - 1) |-> ZeroService], 0)

(***************************************************************************)
(* SpecDoc: any sequence of AddService and RemoveService calls on a        *)
(* document that starts without services.  doc0 keeps the document as it   *)
(* was before the last call, tag the tag of that call, pc its name.        *)
(***************************************************************************)
DocID == "did:io:0x1"

Tags == {"a", "b", "c"}

ServiceTypes == {"t1", "t2"}

Endpoints == {"e1", "e2"}

\* the document as NewDIDDoc leaves it, as far as the service calls read it
NewDoc ==
    [ID |-> DocID,
     Authentication |-> MakeSlice(<<DocID \o "#key-0">>),
     Service |-> NilSlice]

InitDoc ==
    /\ pc = "new"
    /\ doc = NewDoc
    /\ doc0 = NewDoc
    /\ tag = ""
    /\ ret = ErrNil
    /\ node = 0 /\ node2 = 0 /\ key = <<>> /\ val = <<>> /\ idx = 0
    /\ flag = FALSE /\ stack0 = <<>> /\ stack = <<>> /\ blob = <<>>
    /\ trieA = 0 /\ trieB = 0

DocAddService ==
    /\ \E t \in Tags, ty \in ServiceTypes, e \in Endpoints :
           /\ doc' = AddService(doc, t, ty, e)
           /\ tag' = t
    /\ doc0' = doc
    /\ ret' = ErrNil
    /\ pc' = "AddService"
    /\ UNCHANGED <<node, node2, key, val, idx, flag, stack0, stack, blob,
                   trieA, trieB>>

DocRemoveService ==
    /\ \E t \in Tags :
           LET r == RemoveService(doc, t)
           IN  /\ doc' = r.doc
               /\ ret' = r.err
               /\ tag' = t
    /\ doc0' = doc
    /\ pc' = "RemoveService"
    /\ UNCHANGED <<node, node2, key, val, idx, flag, stack0, stack, blob,
                   trieA, trieB>>

NextDoc == DocAddService \/ DocRemoveService

SpecDoc == InitDoc /\ [][NextDoc]_vars

\* the positions in a document's service list that hold the given id
ServicesWithID(d, id) ==
    {i \in 1..Len(d.Service.elems) : d.Service.elems[i].ID = id}

\* the service list without the services of the given id, order kept
WithoutID(d, id) ==
    LET Keep(s) == s.ID # id
    IN  SelectSeq(d.Service.elems, Keep)

\* C20: starting from a document with no services, after any sequence of
\* AddService and RemoveService calls no two services share an ID;
\* RemoveService(tag) returns an error and leaves the service list as it
\* was exactly when no service has ID doc.ID + "#" + tag, and otherwise
\* removes exactly that service and keeps the others in their order.
C20_DocServices ==
    /\ \A i \in 1..Len(doc.Service.elems) : \A j \in 1..Len(doc.Service.elems) :
           doc.Service.elems[i].ID = doc.Service.elems[j].ID => i = j
    /\ pc = "RemoveService" =>
           LET id == ServiceID(doc0, tag)
           IN  IF ServicesWithID(doc0, id) = {}
               THEN ret # ErrNil /\ doc = doc0
               ELSE /\ ret = ErrNil
                    /\ doc.Service.elems = WithoutID(doc0, id)
                    /\ Len(doc.Service.elems) = Len(doc0.Service.elems) - 1
                    /\ doc.ID = doc0.ID

\* the middle one of three services was removed
C20_Witness ==
    /\ pc = "RemoveService"
    /\ ret = ErrNil
    /\ Len(doc0.Service.elems) = 3
    /\ doc0.Service.elems[2].ID = ServiceID(doc0, tag)
    /\ Len(doc.Service.elems) = 2
    /\ doc.Service.elems[1] = doc0.Service.elems[1]
    /\ doc.Service.elems[2] = doc0.Service.elems[3]

====
